---- MODULE Spec2Model ----
(***************************************************************************)
(* Model of the farm dashboard of climate-aware-crop                       *)
(* (app/components/EnhancedDashboard.jsx): the React state of the          *)
(* component, its event handlers, the asynchronous submission              *)
(* calculateStressLevel with its two suspension points (weather request,   *)
(* persistence write), and the pure stress evaluator evaluateStress.       *)
(*                                                                         *)
(* null is modelled as the empty sequence <<>> and a present value v as    *)
(* <<v>>.  Coordinates are integers in units of 1e-4 degree.               *)
(***************************************************************************)
EXTENDS Integers, Sequences, FiniteSets, TLC

VARIABLES
    cropData,        \* useState: the crop form
    seasonSource,    \* useState: "auto" | "farmer"
    errors,          \* useState: list of error strings
    loading,         \* useState: never set by this component
    success,         \* useState: success banner flag
    stressLevel,     \* useState: null (<<>>) or <<StressAssessment>>
    weatherData,     \* useState: null (<<>>) or <<WeatherSnapshot>>
    weatherLoading,  \* useState: a submission is outstanding
    inflight,        \* suspended calculateStressLevel runs, each with its closure
    timers,          \* pending setTimeout(() => setSuccess(false), 3000) callbacks
    prediction       \* the request to the prediction service and what became of it

vars == <<cropData, seasonSource, errors, loading, success, stressLevel,
          weatherData, weatherLoading, inflight, timers, prediction>>

(***************************************************************************)
(* Bounds of the model.                                                    *)
(***************************************************************************)
\* suspended submissions the model tracks at once
MaxInFlight == 2
\* success timers pending at once
MaxTimers == 2

Min(a, b) == IF a <= b THEN a ELSE b

(***************************************************************************)
(* Collaborators that live outside the component.                          *)
(***************************************************************************)
getSeasons == {"Summer", "Winter", "Monsoon"}

getSoilTypes == {"Sandy", "Clay", "Loamy"}

getCropTypes == {"Rice", "Wheat", "Corn", "Sugarcane", "Cotton"}

\* month of a sowing date as <input type="date"> delivers it (YYYY-MM-DD);
\* 0 for the empty or unparseable value
monthOf(date) ==
    CASE date = "2026-01-15" -> 1
      [] date = "2026-04-15" -> 4
      [] date = "2026-07-15" -> 7
      [] OTHER -> 0

\* fixed month bands; "" when the date is not parseable
detectSeason(date) ==
    LET m == monthOf(date)
    IN  IF m = 0 THEN ""
        ELSE IF m >= 3 /\ m <= 6 THEN "Summer"
        ELSE IF m >= 7 /\ m <= 10 THEN "Monsoon"
        ELSE "Winter"

validateCropDataFirstFailure(data) ==
    LET errs ==
            IF data.soil_type \notin getSoilTypes THEN <<"Soil type is required">>
            ELSE IF data.crop_type \notin getCropTypes THEN <<"Crop type is required">>
            ELSE IF monthOf(data.sowing_date) = 0 THEN <<"Sowing date is required">>
            ELSE IF data.season \notin getSeasons THEN <<"Season is required">>
            ELSE <<>>
    IN  [isValid |-> errs = <<>>, errors |-> errs]

\* one message per failing field, in the order soil, crop, date, season
validateCropData(data) ==
    LET errs ==
            (IF data.soil_type \in getSoilTypes THEN <<>>
             ELSE <<"Soil type is required">>)
         \o (IF data.crop_type \in getCropTypes THEN <<>>
             ELSE <<"Crop type is required">>)
         \o (IF monthOf(data.sowing_date) # 0 THEN <<>>
             ELSE <<"Sowing date is required">>)
         \o (IF data.season \in getSeasons THEN <<>>
             ELSE <<"Season is required">>)
    IN  [isValid |-> errs = <<>>, errors |-> errs]

\* user.uid of the signed-in user
userId == "uid-1"

(***************************************************************************)
(* parseFloat(x) || default  (lines 86-87)                                 *)
(***************************************************************************)
NaN == [nan |-> TRUE, e4 |-> 0]

\* parseFloat on the values a number input can hold
parseFloat(s) ==
    CASE s = "0" -> [nan |-> FALSE, e4 |-> 0]
      [] s = "19.1136" -> [nan |-> FALSE, e4 |-> 191136]
      [] s = "73.5142" -> [nan |-> FALSE, e4 |-> 735142]
      [] OTHER -> NaN

DefaultLat == 205937

DefaultLng == 789629

\* JavaScript a || b on a number a: NaN and 0 are falsy
orDefault(a, b) == IF a.nan \/ a.e4 = 0 THEN b ELSE a.e4

(***************************************************************************)
(* The stress evaluator (lines 113-188).                                   *)
(***************************************************************************)
Factor(category, text) == [category |-> category, text |-> text]

soilStressHeavySandy(crop) ==
    IF crop.soil_type = "Sandy" THEN
        [delta |-> 40,
         factors |-> <<Factor("soil",
            "Sandy soil: High water drainage - May cause drought stress")>>]
    ELSE IF crop.soil_type = "Clay" THEN
        [delta |-> 15,
         factors |-> <<Factor("soil",
            "Clay soil: Poor drainage - Risk of waterlogging")>>]
    ELSE
        [delta |-> 5,
         factors |-> <<Factor("soil",
            "Loamy soil: Good drainage - Optimal for most crops")>>]

soilStress(crop) ==
    IF crop.soil_type = "Sandy" THEN
        [delta |-> 20,
         factors |-> <<Factor("soil",
            "Sandy soil: High water drainage - May cause drought stress")>>]
    ELSE IF crop.soil_type = "Clay" THEN
        [delta |-> 15,
         factors |-> <<Factor("soil",
            "Clay soil: Poor drainage - Risk of waterlogging")>>]
    ELSE
        [delta |-> 5,
         factors |-> <<Factor("soil",
            "Loamy soil: Good drainage - Optimal for most crops")>>]

temperatureStressSignSlip(weather) ==
    IF weather.temp > 35 THEN
        [delta |-> -25,
         factors |-> <<Factor("temperature",
            "High temperature (" \o ToString(weather.temp) \o "°C): Heat stress risk")>>]
    ELSE IF weather.temp < 10 THEN
        [delta |-> -20,
         factors |-> <<Factor("temperature",
            "Low temperature (" \o ToString(weather.temp) \o "°C): Cold stress risk")>>]
    ELSE
        [delta |-> 0,
         factors |-> <<Factor("temperature",
            "Temperature (" \o ToString(weather.temp) \o "°C): Normal")>>]

temperatureStress(weather) ==
    IF weather.temp > 35 THEN
        [delta |-> 25,
         factors |-> <<Factor("temperature",
            "High temperature (" \o ToString(weather.temp) \o "°C): Heat stress risk")>>]
    ELSE IF weather.temp < 10 THEN
        [delta |-> 20,
         factors |-> <<Factor("temperature",
            "Low temperature (" \o ToString(weather.temp) \o "°C): Cold stress risk")>>]
    ELSE
        [delta |-> 0,
         factors |-> <<Factor("temperature",
            "Temperature (" \o ToString(weather.temp) \o "°C): Normal")>>]

humidityStress(weather) ==
    IF weather.humidity < 30 THEN
        [delta |-> 20,
         factors |-> <<Factor("humidity",
            "Low humidity (" \o ToString(weather.humidity) \o "%): High evaporation")>>]
    ELSE IF weather.humidity > 90 THEN
        [delta |-> 15,
         factors |-> <<Factor("humidity",
            "High humidity (" \o ToString(weather.humidity) \o "%): Disease risk")>>]
    ELSE
        [delta |-> 0,
         factors |-> <<Factor("humidity",
            "Humidity (" \o ToString(weather.humidity) \o "%): Good")>>]

rainfallStressNoWinterCheck(crop, weather) ==
    IF weather.rainfall > 100 THEN
        [delta |-> 15,
         factors |-> <<Factor("rainfall", "Heavy rainfall: Waterlogging risk")>>]
    ELSE IF weather.rainfall = 0 THEN
        [delta |-> 15,
         factors |-> <<Factor("rainfall", "No rainfall: Drought risk")>>]
    ELSE
        [delta |-> 0, factors |-> <<>>]

rainfallStress(crop, weather) ==
    IF weather.rainfall > 100 THEN
        [delta |-> 15,
         factors |-> <<Factor("rainfall", "Heavy rainfall: Waterlogging risk")>>]
    ELSE IF weather.rainfall = 0 /\ crop.season # "Winter" THEN
        [delta |-> 15,
         factors |-> <<Factor("rainfall", "No rainfall: Drought risk")>>]
    ELSE
        [delta |-> 0, factors |-> <<>>]

\* crop type -> optimal seasons; the empty set stands for a missing key
cropSeasonMap(crop_type) ==
    CASE crop_type = "Rice" -> {"Monsoon"}
      [] crop_type = "Wheat" -> {"Winter"}
      [] crop_type = "Corn" -> {"Summer", "Monsoon"}
      [] crop_type = "Sugarcane" -> {"Winter", "Summer"}
      [] crop_type = "Cotton" -> {"Summer", "Monsoon"}
      [] OTHER -> {}

seasonStressSilentOffSeason(crop) ==
    IF crop.season \in cropSeasonMap(crop.crop_type) THEN
        [delta |-> 0,
         factors |-> <<Factor("season",
            crop.crop_type \o " in " \o crop.season \o ": Optimal season")>>]
    ELSE
        [delta |-> IF cropSeasonMap(crop.crop_type) # {} THEN 10 ELSE 0,
         factors |-> <<>>]

seasonStress(crop) ==
    IF crop.season \in cropSeasonMap(crop.crop_type) THEN
        [delta |-> 0,
         factors |-> <<Factor("season",
            crop.crop_type \o " in " \o crop.season \o ": Optimal season")>>]
    ELSE IF cropSeasonMap(crop.crop_type) # {} THEN
        [delta |-> 10,
         factors |-> <<Factor("season",
            crop.crop_type \o " in " \o crop.season \o ": Off-season growing")>>]
    ELSE
        [delta |-> 0, factors |-> <<>>]

getStressLevelStrict(score) ==
    IF score < 20 THEN "Low"
    ELSE IF score < 40 THEN "Moderate"
    ELSE IF score < 60 THEN "High"
    ELSE "Critical"

getStressLevel(score) ==
    IF score <= 20 THEN "Low"
    ELSE IF score <= 40 THEN "Moderate"
    ELSE IF score <= 60 THEN "High"
    ELSE "Critical"

evaluateStress(crop, weather) ==
    LET soil == soilStress(crop)
        temperature == temperatureStress(weather)
        humidity == humidityStress(weather)
        rainfall == rainfallStress(crop, weather)
        season == seasonStress(crop)
        stressScore == soil.delta + temperature.delta + humidity.delta
                       + rainfall.delta + season.delta
    IN  [score |-> Min(stressScore, 100),
         level |-> getStressLevel(stressScore),
         factors |-> soil.factors \o temperature.factors \o humidity.factors
                     \o rainfall.factors \o season.factors]

(***************************************************************************)
(* The prediction service and its client (ml-service/app.py and the        *)
(* prediction form): range validation of the four numeric inputs.          *)
(***************************************************************************)
NumericFields == <<"temperature", "rainfall", "soil_moisture", "pest_damage">>

VALIDATION_RULES_WideTemperature(field) ==
    CASE field = "temperature" -> <<0 - 50, 600>>
      [] field = "rainfall" -> <<0, 500>>
      [] field = "soil_moisture" -> <<0, 100>>
      [] field = "pest_damage" -> <<0, 100>>

\* field -> (lowest, highest) accepted value
VALIDATION_RULES(field) ==
    CASE field = "temperature" -> <<0 - 50, 60>>
      [] field = "rainfall" -> <<0, 500>>
      [] field = "soil_moisture" -> <<0, 100>>
      [] field = "pest_damage" -> <<0, 100>>

OutOfRange(request, field) ==
    \/ request[field] < VALIDATION_RULES(field)[1]
    \/ request[field] > VALIDATION_RULES(field)[2]

\* the validation both sides run: no error, or one error naming the first
\* offending field and its valid range
validateRanges(request) ==
    LET bad == SelectSeq(NumericFields, LAMBDA f : OutOfRange(request, f))
    IN  IF bad = <<>> THEN <<>>
        ELSE <<[field |-> bad[1],
                lowest |-> VALIDATION_RULES(bad[1])[1],
                highest |-> VALIDATION_RULES(bad[1])[2]]>>

NoRequest ==
    [temperature |-> 0, rainfall |-> 0, soil_moisture |-> 0, pest_damage |-> 0]

NoPrediction ==
    [pc |-> "idle", via |-> "none", request |-> NoRequest, sent |-> 0,
     error |-> <<>>, processed |-> <<>>]

(***************************************************************************)
(* Inputs of the dashboard: what the farmer can enter in the form and what *)
(* the weather gateway can answer.                                         *)
(***************************************************************************)
CropInputs == {"", "Wheat"}

SoilInputs == {"", "Clay"}

DateInputs == {"", "2026-01-15", "2026-07-15"}

SeasonInputs == {""} \cup getSeasons

VillageInputs == {""}

LatInputs == {"", "0", "19.1136"}

LngInputs == {""}

WeatherResponses ==
    { [temp |-> 40, humidity |-> 25, rainfall |-> 0, windSpeed |-> 10],
      [temp |-> 22, humidity |-> 60, rainfall |-> 50, windSpeed |-> 5] }

(***************************************************************************)
(* The component (lines 10-111, 278-280).                                  *)
(***************************************************************************)
Init ==
    /\ cropData = [crop_type |-> "", soil_type |-> "", sowing_date |-> "",
                   season |-> "",
                   location |-> [village |-> "", lat |-> "", lng |-> ""]]
    /\ seasonSource = "auto"
    /\ errors = <<>>
    /\ loading = FALSE
    /\ success = FALSE
    /\ stressLevel = <<>>
    /\ weatherData = <<>>
    /\ weatherLoading = FALSE
    /\ inflight = <<>>
    /\ timers = 0
    /\ prediction = NoPrediction

\* useEffect on [cropData.sowing_date, seasonSource]: the form after the
\* render that follows a state change from (oldData, oldSource)
seasonEffectIgnoringSource(oldData, oldSource, newData, newSource) ==
    IF /\ (newData.sowing_date # oldData.sowing_date \/ newSource # oldSource)
       /\ newData.sowing_date # ""
       /\ detectSeason(newData.sowing_date) # ""
    THEN [newData EXCEPT !.season = detectSeason(newData.sowing_date)]
    ELSE newData

seasonEffect(oldData, oldSource, newData, newSource) ==
    IF /\ (newData.sowing_date # oldData.sowing_date \/ newSource # oldSource)
       /\ newData.sowing_date # ""
       /\ newSource = "auto"
       /\ detectSeason(newData.sowing_date) # ""
    THEN [newData EXCEPT !.season = detectSeason(newData.sowing_date)]
    ELSE newData

FormOnly ==
    UNCHANGED <<prediction, errors, loading, success, stressLevel,
                weatherData, weatherLoading, inflight, timers>>

\* handleInputChange for the fields outside location
handleInputChange(name, value) ==
    /\ name \in {"crop_type", "soil_type", "sowing_date"}
    /\ cropData' = seasonEffect(cropData, seasonSource,
                                [cropData EXCEPT ![name] = value], seasonSource)
    /\ seasonSource' = seasonSource
    /\ FormOnly

\* handleInputChange for location_village, location_lat, location_lng
handleLocationChange(fieldName, value) ==
    /\ fieldName \in {"village", "lat", "lng"}
    /\ cropData' = seasonEffect(cropData, seasonSource,
                                [cropData EXCEPT !.location[fieldName] = value],
                                seasonSource)
    /\ seasonSource' = seasonSource
    /\ FormOnly

handleSeasonChange(value) ==
    /\ cropData' = seasonEffect(cropData, seasonSource,
                                [cropData EXCEPT !.season = value], "farmer")
    /\ seasonSource' = "farmer"
    /\ FormOnly

\* disabled={loading || weatherLoading} of the submit button
submitDisabledLoadingOnly == loading

submitDisabled == loading \/ weatherLoading

RemoveAt(s, i) == SubSeq(s, 1, i - 1) \o SubSeq(s, i + 1, Len(s))

weatherRequests == {i \in 1..Len(inflight) : inflight[i].pc = "weather"}

persistenceWrites == {i \in 1..Len(inflight) : inflight[i].pc = "save"}

\* the one message of the catch block
catchErrors == <<"Failed to evaluate stress. Please try again.">>

\* click on the submit button, validation fails (lines 74-79)
SubmitInvalidProceeds ==
    /\ ~submitDisabled
    /\ Len(inflight) < MaxInFlight
    /\ ~validateCropData(cropData).isValid
    /\ errors' = validateCropData(cropData).errors
    /\ stressLevel' = <<>>
    /\ weatherLoading' = TRUE
    /\ inflight' = Append(inflight,
          [pc |-> "weather", cropData |-> cropData, seasonSource |-> seasonSource,
           lat |-> DefaultLat, lng |-> DefaultLng, payload |-> <<>>])
    /\ UNCHANGED <<prediction, cropData, seasonSource, loading, success, weatherData, timers>>

SubmitInvalid ==
    /\ ~submitDisabled
    /\ ~validateCropData(cropData).isValid
    /\ errors' = validateCropData(cropData).errors
    /\ stressLevel' = <<>>
    /\ UNCHANGED <<prediction, cropData, seasonSource, loading, success, weatherData,
                   weatherLoading, inflight, timers>>

\* click on the submit button, validation passes: runs to await getWeatherData
\* (lines 74-89)
SubmitValid ==
    /\ ~submitDisabled
    /\ Len(inflight) < MaxInFlight
    /\ Len(inflight) + timers < MaxTimers
    /\ validateCropData(cropData).isValid
    /\ errors' = <<>>
    /\ weatherLoading' = TRUE
    /\ inflight' = Append(inflight,
          [pc |-> "weather", cropData |-> cropData, seasonSource |-> seasonSource,
           lat |-> orDefault(parseFloat(cropData.location.lat), DefaultLat),
           lng |-> orDefault(parseFloat(cropData.location.lng), DefaultLng),
           payload |-> <<>>])
    /\ UNCHANGED <<prediction, cropData, seasonSource, loading, success, stressLevel,
                   weatherData, timers>>

\* { ...cropData, userId: user.uid, season_source: seasonSource } (lines 97-101)
saveCropCycleArg(data, source) ==
    [crop_type |-> data.crop_type, soil_type |-> data.soil_type,
     sowing_date |-> data.sowing_date, season |-> data.season,
     location |-> data.location, userId |-> userId, season_source |-> source]

WeatherOkUsesLiveForm(i, weather) ==
    /\ i \in weatherRequests
    /\ weatherData' = <<weather>>
    /\ stressLevel' = <<evaluateStress(cropData, weather)>>
    /\ inflight' = [inflight EXCEPT
          ![i].pc = "save",
          ![i].payload = <<saveCropCycleArg(cropData, seasonSource)>>]
    /\ UNCHANGED <<prediction, cropData, seasonSource, errors, loading, success,
                   weatherLoading, timers>>

\* getWeatherData resolves: runs to await saveCropCycle (lines 89-101)
WeatherOk(i, weather) ==
    /\ i \in weatherRequests
    /\ weatherData' = <<weather>>
    /\ stressLevel' = <<evaluateStress(inflight[i].cropData, weather)>>
    /\ inflight' = [inflight EXCEPT
          ![i].pc = "save",
          ![i].payload = <<saveCropCycleArg(inflight[i].cropData,
                                            inflight[i].seasonSource)>>]
    /\ UNCHANGED <<prediction, cropData, seasonSource, errors, loading, success,
                   weatherLoading, timers>>

WeatherFailStillSaves(i) ==
    /\ i \in weatherRequests
    /\ errors' = catchErrors
    /\ inflight' = [inflight EXCEPT ![i].pc = "save"]
    /\ UNCHANGED <<prediction, cropData, seasonSource, loading, success, stressLevel,
                   weatherData, weatherLoading, timers>>

WeatherFailKeepsLoading(i) ==
    /\ i \in weatherRequests
    /\ errors' = catchErrors
    /\ inflight' = RemoveAt(inflight, i)
    /\ UNCHANGED <<prediction, cropData, seasonSource, loading, success,
                   stressLevel, weatherData, weatherLoading, timers>>

\* getWeatherData rejects: catch, finally (lines 105-110)
WeatherFail(i) ==
    /\ i \in weatherRequests
    /\ errors' = catchErrors
    /\ weatherLoading' = FALSE
    /\ inflight' = RemoveAt(inflight, i)
    /\ UNCHANGED <<prediction, cropData, seasonSource, loading, success, stressLevel,
                   weatherData, timers>>

SaveOkNoTimer(i) ==
    /\ i \in persistenceWrites
    /\ success' = TRUE
    /\ weatherLoading' = FALSE
    /\ inflight' = RemoveAt(inflight, i)
    /\ UNCHANGED <<prediction, cropData, seasonSource, errors, loading, stressLevel,
                   weatherData, timers>>

\* saveCropCycle resolves: success, timer, finally (lines 103-104, 108-110)
SaveOk(i) ==
    /\ i \in persistenceWrites
    /\ success' = TRUE
    /\ timers' = timers + 1
    /\ weatherLoading' = FALSE
    /\ inflight' = RemoveAt(inflight, i)
    /\ UNCHANGED <<prediction, cropData, seasonSource, errors, loading, stressLevel,
                   weatherData>>

SaveFailSuccessInFinally(i) ==
    /\ i \in persistenceWrites
    /\ errors' = catchErrors
    /\ success' = TRUE
    /\ timers' = timers + 1
    /\ weatherLoading' = FALSE
    /\ inflight' = RemoveAt(inflight, i)
    /\ UNCHANGED <<prediction, cropData, seasonSource, loading, stressLevel, weatherData>>

\* saveCropCycle rejects: catch, finally (lines 105-110)
SaveFail(i) ==
    /\ i \in persistenceWrites
    /\ errors' = catchErrors
    /\ weatherLoading' = FALSE
    /\ inflight' = RemoveAt(inflight, i)
    /\ UNCHANGED <<prediction, cropData, seasonSource, loading, success, stressLevel,
                   weatherData, timers>>

\* a success timer fires (line 104)
TimerFires ==
    /\ timers > 0
    /\ success' = FALSE
    /\ timers' = timers - 1
    /\ UNCHANGED <<prediction, cropData, seasonSource, errors, loading, stressLevel,
                   weatherData, weatherLoading, inflight>>

EditCrop == \E v \in CropInputs : handleInputChange("crop_type", v)

EditSoil == \E v \in SoilInputs : handleInputChange("soil_type", v)

EditSowingDate == \E v \in DateInputs : handleInputChange("sowing_date", v)

EditVillage == \E v \in VillageInputs : handleLocationChange("village", v)

EditLat == \E v \in LatInputs : handleLocationChange("lat", v)

EditLng == \E v \in LngInputs : handleLocationChange("lng", v)

PickSeason == \E v \in SeasonInputs : handleSeasonChange(v)

WeatherResolves ==
    \E i \in 1..Len(inflight), w \in WeatherResponses : WeatherOk(i, w)

WeatherRejects == \E i \in 1..Len(inflight) : WeatherFail(i)

SaveResolves == \E i \in 1..Len(inflight) : SaveOk(i)

SaveRejects == \E i \in 1..Len(inflight) : SaveFail(i)

Next ==
    \/ EditCrop
    \/ EditSoil
    \/ EditSowingDate
    \/ EditVillage
    \/ EditLat
    \/ EditLng
    \/ PickSeason
    \/ SubmitInvalid
    \/ SubmitValid
    \/ WeatherResolves
    \/ WeatherRejects
    \/ SaveResolves
    \/ SaveRejects
    \/ TimerFires

Spec == Init /\ [][Next]_vars

\* the browser runs a timer callback once its delay has passed
SpecTimer == Spec /\ WF_vars(TimerFires)

\* the weather gateway and the persistence collaborator answer every call
SpecRespond ==
    /\ Spec
    /\ WF_vars(WeatherResolves \/ WeatherRejects)
    /\ WF_vars(SaveResolves \/ SaveRejects)

(***************************************************************************)
(* The evaluator on its own: every crop record and weather snapshot of the *)
(* sets below is evaluated once.                                           *)
(***************************************************************************)
\* "Millet" stands for a crop type that has no entry in cropSeasonMap
EvalCropTypes == getCropTypes \cup {"Millet"}

EvalTemps == {9, 10, 22, 35, 36, 40}

EvalHumidities == {25, 29, 30, 60, 90, 91}

EvalRainfalls == {0, 50, 100, 101}

InitEval ==
    /\ cropData \in [crop_type : EvalCropTypes, soil_type : getSoilTypes,
                     sowing_date : {"2026-01-15"}, season : getSeasons,
                     location : {[village |-> "", lat |-> "", lng |-> ""]}]
    /\ weatherData \in {<<w>> : w \in [temp : EvalTemps, humidity : EvalHumidities,
                                       rainfall : EvalRainfalls, windSpeed : {10}]}
    /\ seasonSource = "auto"
    /\ errors = <<>>
    /\ loading = FALSE
    /\ success = FALSE
    /\ stressLevel = <<>>
    /\ weatherLoading = FALSE
    /\ inflight = <<>>
    /\ timers = 0
    /\ prediction = NoPrediction

\* const stressScore = evaluateStress(cropData, weather); setStressLevel(stressScore)
Evaluate ==
    /\ stressLevel = <<>>
    /\ stressLevel' = <<evaluateStress(cropData, weatherData[1])>>
    /\ UNCHANGED <<prediction, cropData, seasonSource, errors, loading, success, weatherData,
                   weatherLoading, inflight, timers>>

NextEval == Evaluate

SpecEval == InitEval /\ [][NextEval]_vars

(***************************************************************************)
(* The prediction request on its own.                                      *)
(***************************************************************************)
PredictionRequests ==
    [temperature : {0 - 51, 0 - 50, 25, 60, 61, 70}, rainfall : {0 - 1, 0, 500, 501},
     soil_moisture : {0 - 1, 0, 100, 101}, pest_damage : {0 - 1, 0, 100, 101}]

InitPredict ==
    /\ cropData = [crop_type |-> "", soil_type |-> "", sowing_date |-> "",
                   season |-> "",
                   location |-> [village |-> "", lat |-> "", lng |-> ""]]
    /\ seasonSource = "auto"
    /\ errors = <<>>
    /\ loading = FALSE
    /\ success = FALSE
    /\ stressLevel = <<>>
    /\ weatherData = <<>>
    /\ weatherLoading = FALSE
    /\ inflight = <<>>
    /\ timers = 0
    /\ prediction \in {[NoPrediction EXCEPT !.request = r] : r \in PredictionRequests}

DashboardIdle ==
    UNCHANGED <<cropData, seasonSource, errors, loading, success, stressLevel,
                weatherData, weatherLoading, inflight, timers>>

\* the client validates, then calls the service only with a request in range
ClientPredict ==
    /\ prediction.pc = "idle"
    /\ LET err == validateRanges(prediction.request)
       IN  prediction' =
               IF err # <<>>
               THEN [prediction EXCEPT !.pc = "rejected", !.via = "client",
                                       !.error = err]
               ELSE [prediction EXCEPT !.pc = "sent", !.via = "client",
                                       !.sent = @ + 1]
    /\ DashboardIdle

\* a caller that does not validate sends the request as it is
SendUnchecked ==
    /\ prediction.pc = "idle"
    /\ prediction' = [prediction EXCEPT !.pc = "sent", !.via = "direct",
                                        !.sent = @ + 1]
    /\ DashboardIdle

\* the service validates again, and predicts from the values as received
ServicePredict ==
    /\ prediction.pc = "sent"
    /\ LET err == validateRanges(prediction.request)
       IN  prediction' =
               IF err # <<>>
               THEN [prediction EXCEPT !.pc = "service_rejected", !.error = err]
               ELSE [prediction EXCEPT !.pc = "predicted",
                                       !.processed = <<prediction.request>>]
    /\ DashboardIdle

NextPredict ==
    \/ ClientPredict
    \/ SendUnchecked
    \/ ServicePredict

SpecPredict == InitPredict /\ [][NextPredict]_vars

(***************************************************************************)
(* Properties of the evaluator, checked under SpecEval.                    *)
(***************************************************************************)
\* the score as the category table states it, before the clamp
TableSum(crop, weather) ==
    (CASE crop.soil_type = "Sandy" -> 20
       [] crop.soil_type = "Clay" -> 15
       [] OTHER -> 5)
    + (CASE weather.temp > 35 -> 25
         [] weather.temp < 10 -> 20
         [] OTHER -> 0)
    + (CASE weather.humidity < 30 -> 20
         [] weather.humidity > 90 -> 15
         [] OTHER -> 0)
    + (CASE weather.rainfall > 100 -> 15
         [] weather.rainfall = 0 /\ crop.season # "Winter" -> 15
         [] OTHER -> 0)
    + (IF /\ crop.crop_type \in {"Rice", "Wheat", "Corn", "Sugarcane", "Cotton"}
          /\ crop.season \notin cropSeasonMap(crop.crop_type)
       THEN 10 ELSE 0)

ClayWheatExample ==
    /\ cropData.soil_type = "Clay" /\ cropData.crop_type = "Wheat"
    /\ cropData.season = "Summer"
    /\ weatherData[1].temp = 40 /\ weatherData[1].humidity = 25
    /\ weatherData[1].rainfall = 0

LoamyRiceExample ==
    /\ cropData.soil_type = "Loamy" /\ cropData.crop_type = "Rice"
    /\ cropData.season = "Monsoon"
    /\ weatherData[1].temp = 22 /\ weatherData[1].humidity = 60
    /\ weatherData[1].rainfall = 50

\* C1: the score evaluateStress returns is min(100, soil + temperature +
\* humidity + rainfall + season) with the deltas of the category table
\* (no drought delta for rainfall 0 in Winter); Clay/40/25/0/Summer/Wheat
\* gives 85 and Critical, Loamy/22/60/50/Monsoon/Rice gives 5 and Low.
C1_ScoreIsClampedTableSum ==
    stressLevel # <<>> =>
        /\ stressLevel[1].score = Min(100, TableSum(cropData, weatherData[1]))
        /\ ClayWheatExample =>
               stressLevel[1].score = 85 /\ stressLevel[1].level = "Critical"
        /\ LoamyRiceExample =>
               stressLevel[1].score = 5 /\ stressLevel[1].level = "Low"

\* the Clay/Wheat example has been evaluated
C1_Witness ==
    /\ stressLevel # <<>>
    /\ ClayWheatExample
    /\ stressLevel[1].score = 85

\* C2: every assessment evaluateStress returns, hence every non-null value of
\* stressLevel, has an integer score between 0 and 100.
C2_ScoreInRange ==
    stressLevel # <<>> =>
        /\ stressLevel[1].score \in Int
        /\ stressLevel[1].score >= 0
        /\ stressLevel[1].score <= 100

\* the largest sum of the table has been evaluated
C2_Witness ==
    /\ stressLevel # <<>>
    /\ stressLevel[1].score = 90
    /\ cropData.soil_type = "Sandy"

ScoreRange == (0 - 5)..105

LevelRank(level) ==
    CASE level = "Low" -> 0
      [] level = "Moderate" -> 1
      [] level = "High" -> 2
      [] level = "Critical" -> 3
      [] OTHER -> 0 - 1

\* C3: getStressLevel returns Low exactly for scores <= 20, Moderate for
\* 21..40, High for 41..60 and Critical above 60; it is monotonic in the
\* score (the level never drops from s to s + 1, which over an interval of
\* integers is the same as for any s1 <= s2); and the level of every returned
\* assessment is getStressLevel of the returned score.
C3_LevelMapping ==
    /\ \A s \in ScoreRange :
          /\ (getStressLevel(s) = "Low") <=> (s <= 20)
          /\ (getStressLevel(s) = "Moderate") <=> (s >= 21 /\ s <= 40)
          /\ (getStressLevel(s) = "High") <=> (s >= 41 /\ s <= 60)
          /\ (getStressLevel(s) = "Critical") <=> (s > 60)
    /\ \A s \in ScoreRange :
          LevelRank(getStressLevel(s)) <= LevelRank(getStressLevel(s + 1))
    /\ stressLevel # <<>> =>
          stressLevel[1].level = getStressLevel(stressLevel[1].score)

\* an assessment on the boundary between Low and Moderate has been returned
C3_Witness ==
    /\ stressLevel # <<>>
    /\ stressLevel[1].score = 20
    /\ stressLevel[1].level = "Low"

Categories(factors) == [k \in 1..Len(factors) |-> factors[k].category]

\* C4 as stated: one soil, one temperature, one humidity, at most one
\* rainfall and exactly one season factor, in this order, for every input.
C4_OneFactorPerCategory ==
    stressLevel # <<>> =>
        Categories(stressLevel[1].factors) \in
            { <<"soil", "temperature", "humidity", "rainfall", "season">>,
              <<"soil", "temperature", "humidity", "season">> }

\* C4, amended: one soil, one temperature, one humidity, at most one rainfall
\* factor, then exactly one season factor when the crop type has an entry in
\* the crop-to-optimal-season table and no season factor when it has none.
C4_FactorsByCategory ==
    stressLevel # <<>> =>
        \E rain \in {<<>>, <<"rainfall">>} :
            Categories(stressLevel[1].factors) =
                <<"soil", "temperature", "humidity">> \o rain
                \o (IF cropData.crop_type \in
                          {"Rice", "Wheat", "Corn", "Sugarcane", "Cotton"}
                    THEN <<"season">> ELSE <<>>)

\* an off-season crop of the table was evaluated on a day without a rainfall
\* factor: four factors, the last one the season factor
C4_Witness ==
    /\ stressLevel # <<>>
    /\ cropData.crop_type = "Wheat" /\ cropData.season = "Monsoon"
    /\ Categories(stressLevel[1].factors) =
           <<"soil", "temperature", "humidity", "season">>

(***************************************************************************)
(* Properties of the component, checked under Spec.                        *)
(***************************************************************************)
\* C5: once the farmer has picked a season, seasonSource stays "farmer", no
\* change of sowing_date changes the season, and the season changes only by
\* another pick of the farmer.
C5_FarmerSeasonSticks ==
    [][seasonSource = "farmer" =>
          /\ seasonSource' = "farmer"
          /\ cropData'.sowing_date # cropData.sowing_date =>
                 cropData'.season = cropData.season
          /\ cropData'.season # cropData.season => PickSeason]_vars

\* the farmer's season stands next to a sowing date of another season
C5_Witness ==
    /\ seasonSource = "farmer"
    /\ cropData.season = "Summer"
    /\ cropData.sowing_date = "2026-07-15"
    /\ detectSeason(cropData.sowing_date) = "Monsoon"

\* C6: at most one submission is in flight; while it is, the submit control
\* is disabled; never two weather requests or two persistence writes at once.
C6_OneSubmissionInFlight ==
    /\ Len(inflight) <= 1
    /\ inflight # <<>> => submitDisabled
    /\ Cardinality(weatherRequests) <= 1
    /\ Cardinality(persistenceWrites) <= 1

\* a submission waits for its persistence write, the control is disabled
C6_Witness ==
    /\ Len(inflight) = 1
    /\ inflight[1].pc = "save"
    /\ submitDisabled

\* C7: a submit that fails validation sets errors to the validator's list,
\* clears the assessment, issues no weather request and no write, leaves
\* success, the form and seasonSource alone and the submit control enabled.
C7_InvalidSubmitStops ==
    [][SubmitInvalid =>
          /\ errors' = validateCropData(cropData).errors
          /\ errors' # <<>>
          /\ stressLevel' = <<>>
          /\ inflight' = inflight
          /\ weatherRequests' = weatherRequests
          /\ persistenceWrites' = persistenceWrites
          /\ success' = success
          /\ ~submitDisabled'
          /\ cropData' = cropData
          /\ seasonSource' = seasonSource]_vars

\* an assessment had been shown (its weather is still there) and a later
\* invalid submit cleared it and listed two or more errors
C7_Witness ==
    /\ errors = validateCropData(cropData).errors
    /\ Len(errors) >= 2
    /\ stressLevel = <<>>
    /\ weatherData # <<>>
    /\ inflight = <<>>
    /\ ~submitDisabled

\* C8: a persistence write is issued only by the step in which the weather
\* request of a validated submission succeeds and its assessment is stored;
\* a weather failure issues no write, leaves success alone and sets errors to
\* a single message.
C8_WriteOnlyAfterWeather ==
    [][/\ Cardinality(persistenceWrites') > Cardinality(persistenceWrites) =>
              \E i \in weatherRequests, w \in WeatherResponses :
                  /\ WeatherOk(i, w)
                  /\ validateCropData(inflight[i].cropData).isValid
                  /\ stressLevel' = <<evaluateStress(inflight[i].cropData, w)>>
       /\ WeatherRejects =>
              /\ Cardinality(persistenceWrites') = Cardinality(persistenceWrites)
              /\ persistenceWrites' = {}
              /\ success' = success
              /\ Len(errors') = 1]_vars

\* the first weather request failed: one message, nothing evaluated or saved
C8_Witness ==
    /\ errors = catchErrors
    /\ weatherData = <<>>
    /\ stressLevel = <<>>
    /\ inflight = <<>>
    /\ ~success
    /\ timers = 0

\* what the user sees after a failed weather request (WeatherFail)
ErrorsShownAfterWeatherFailure == catchErrors

\* C9: the errors shown after a failed persistence write differ from the
\* errors shown after a failed weather request.
C9_PersistenceErrorDistinct ==
    [][SaveRejects => errors' # ErrorsShownAfterWeatherFailure]_vars

\* C10: success turns true only in the step of a successful persistence
\* write; a failed validation, weather request or write leaves success as it
\* was; a failed write ends with errors shown and the submission over.
C10_SuccessOnlyAfterWrite ==
    [][/\ (success' /\ ~success) => SaveResolves
       /\ (SubmitInvalid \/ WeatherRejects \/ SaveRejects) => success' = success
       /\ SaveRejects =>
              /\ errors' # <<>>
              /\ ~weatherLoading'
              /\ Len(inflight') = Len(inflight) - 1]_vars

\* a submission went through: banner on, timer pending, no errors
C10_Witness ==
    /\ success
    /\ timers = 1
    /\ errors = <<>>
    /\ stressLevel # <<>>
    /\ inflight = <<>>

\* C11: whenever success is true it becomes false again, by the display timer
\* alone (under fairness of the timer): no other step turns success off.
C11_SuccessReverts ==
    /\ success ~> ~success
    /\ [][(success /\ ~success') => TimerFires]_vars

\* a submission succeeded and its timer has taken the banner away again
C11_Witness ==
    /\ ~success
    /\ timers = 0
    /\ stressLevel # <<>>
    /\ errors = <<>>
    /\ inflight = <<>>

\* the fields the validator requires, in the order of its messages
RequiredFields == <<"soil_type", "crop_type", "sowing_date", "season">>

FieldMissing(f) == cropData[f] = ""

MessageOf(f) ==
    CASE f = "soil_type" -> "Soil type is required"
      [] f = "crop_type" -> "Crop type is required"
      [] f = "sowing_date" -> "Sowing date is required"
      [] f = "season" -> "Season is required"

MissingFields == SelectSeq(RequiredFields, FieldMissing)

\* C12: on the form record the validator returns isValid = true and no
\* errors when crop_type, soil_type, sowing_date and season are all present,
\* and otherwise isValid = false with exactly one error per missing field in
\* the order soil, crop, date, season; a submit leaves the record as it was.
C12_ValidatorFailsClosed ==
    /\ [](LET v == validateCropData(cropData)
          IN  /\ v.isValid <=> MissingFields = <<>>
              /\ v.isValid => v.errors = <<>>
              /\ Len(v.errors) = Len(MissingFields)
              /\ \A k \in 1..Len(MissingFields) :
                     v.errors[k] = MessageOf(MissingFields[k]))
    /\ [][(SubmitInvalid \/ SubmitValid) => cropData' = cropData]_vars

\* a submit of a record without crop type and without season has listed
\* both errors, crop before season
C12_Witness ==
    /\ cropData.soil_type # "" /\ cropData.sowing_date # ""
    /\ cropData.crop_type = "" /\ cropData.season = ""
    /\ errors = <<"Crop type is required", "Season is required">>

\* the valid range of each numeric input, as the claim states it
ClaimedRange(field) ==
    CASE field = "temperature" -> <<0 - 50, 60>>
      [] field = "rainfall" -> <<0, 500>>
      [] field = "soil_moisture" -> <<0, 100>>
      [] field = "pest_damage" -> <<0, 100>>

OutsideClaimedRange ==
    {f \in {"temperature", "rainfall", "soil_moisture", "pest_damage"} :
        \/ prediction.request[f] < ClaimedRange(f)[1]
        \/ prediction.request[f] > ClaimedRange(f)[2]}

NamesAnOffendingRange(err) ==
    /\ Len(err) = 1
    /\ err[1].field \in OutsideClaimedRange
    /\ <<err[1].lowest, err[1].highest>> = ClaimedRange(err[1].field)

\* C13: a prediction request with temperature outside [-50,60], rainfall
\* outside [0,500], soil_moisture or pest_damage outside [0,100] is never
\* processed and never clamped; the client rejects it before any network
\* call (temperature = 70 with the range [-50,60]) and the service rejects it
\* when it is sent anyway, each with an error naming the valid range.
C13_OutOfRangeRejected ==
    /\ OutsideClaimedRange # {} =>
           /\ prediction.pc # "predicted"
           /\ prediction.processed = <<>>
           /\ prediction.via = "client" =>
                  /\ prediction.pc = "rejected"
                  /\ prediction.sent = 0
                  /\ NamesAnOffendingRange(prediction.error)
           /\ prediction.via = "direct" /\ prediction.pc # "sent" =>
                  /\ prediction.pc = "service_rejected"
                  /\ NamesAnOffendingRange(prediction.error)
    /\ prediction.request.temperature = 70 /\ prediction.via = "client" =>
           prediction.error =
               <<[field |-> "temperature", lowest |-> 0 - 50, highest |-> 60]>>
    /\ prediction.pc = "predicted" =>
           /\ OutsideClaimedRange = {}
           /\ prediction.processed = <<prediction.request>>
    /\ prediction.pc \in {"rejected", "service_rejected"} =>
           OutsideClaimedRange # {}

\* temperature = 70 was sent past the client and the service refused it
C13_Witness ==
    /\ prediction.request.temperature = 70
    /\ prediction.via = "direct"
    /\ prediction.pc = "service_rejected"
    /\ prediction.sent = 1

\* C14 as stated: after a manual season pick, the next change of sowing_date
\* re-enables auto-detection, so the season is set from the new date.
C14_DateChangeReenablesAuto ==
    [][(/\ seasonSource = "farmer"
        /\ cropData'.sowing_date # cropData.sowing_date
        /\ detectSeason(cropData'.sowing_date) # "") =>
           cropData'.season = detectSeason(cropData'.sowing_date)]_vars

\* C14, amended: after a manual season pick auto-detection stays suppressed,
\* a later change of sowing_date does not re-enable it and leaves the season
\* alone; the season follows the date only while no manual pick was made.
C14_DateChangeKeepsFarmerSeason ==
    /\ [][(seasonSource = "farmer"
           /\ cropData'.sowing_date # cropData.sowing_date) =>
              /\ cropData'.season = cropData.season
              /\ seasonSource' = "farmer"]_vars
    /\ [](seasonSource = "auto" /\ cropData.sowing_date # "" =>
              cropData.season = detectSeason(cropData.sowing_date))

\* the farmer's Winter stands next to a sowing date in the monsoon band
C14_Witness ==
    /\ seasonSource = "farmer"
    /\ cropData.season = "Winter"
    /\ cropData.sowing_date = "2026-07-15"

\* the sum of the category deltas evaluateStress adds up, before the clamp
DeltaSum(crop, weather) ==
    soilStress(crop).delta + temperatureStress(weather).delta
    + humidityStress(weather).delta + rainfallStress(crop, weather).delta
    + seasonStress(crop).delta

\* C15 as stated: some input has category deltas that sum to more than 100,
\* and evaluateStress returns score 100 for it (looked for among all inputs
\* of the evaluator once an assessment has been returned).
C15_SumAbove100Exists ==
    stressLevel # <<>> =>
    \E crop_type \in EvalCropTypes, soil_type \in getSoilTypes,
       season \in getSeasons, temp \in EvalTemps, humidity \in EvalHumidities,
       rainfall \in EvalRainfalls :
        LET crop == [crop_type |-> crop_type, soil_type |-> soil_type,
                     season |-> season]
            weather == [temp |-> temp, humidity |-> humidity,
                        rainfall |-> rainfall]
        IN  /\ DeltaSum(crop, weather) > 100
            /\ evaluateStress(crop, weather).score = 100

\* C15, amended: no input has category deltas that sum to more than 100; the
\* largest sum is 90, so the clamp never applies and evaluateStress returns
\* the sum itself.
C15_SumAtMost90 ==
    stressLevel # <<>> =>
        /\ DeltaSum(cropData, weatherData[1]) <= 90
        /\ stressLevel[1].score = DeltaSum(cropData, weatherData[1])
        /\ stressLevel[1].score < 100

\* the largest sum, 90, was evaluated for heavy rain on an off-season crop
C15_Witness ==
    /\ stressLevel # <<>>
    /\ DeltaSum(cropData, weatherData[1]) = 90
    /\ stressLevel[1].score = 90
    /\ weatherData[1].rainfall > 100

\* C16: when the collaborators answer, a submission that passed validation
\* reaches its end; the step that ends it leaves weatherLoading false and the
\* submit control enabled, and has set success (write succeeded) or a
\* non-empty errors list (weather or write failed), never neither.
C16_SubmissionTerminates ==
    /\ (inflight # <<>>) ~> (inflight = <<>> /\ ~submitDisabled)
    /\ [][(WeatherRejects \/ SaveResolves \/ SaveRejects) =>
             /\ Len(inflight') = Len(inflight) - 1
             /\ ~weatherLoading'
             /\ ~submitDisabled'
             /\ success' \/ errors' # <<>>
             /\ SaveResolves => success'
             /\ (WeatherRejects \/ SaveRejects) => errors' # <<>>]_vars

\* a submission ended with a failed write: assessment shown, errors shown,
\* no banner, the control enabled again
C16_Witness ==
    /\ inflight = <<>>
    /\ ~submitDisabled
    /\ errors = catchErrors
    /\ stressLevel # <<>>
    /\ ~success
    /\ timers = 0

\* C17: a submission keeps the form and the seasonSource of the moment of
\* the submit; edits made while it is in flight do not change what it holds;
\* the record evaluated and the record handed to saveCropCycle are that
\* snapshot, the latter with the user id and that seasonSource added.
C17_SnapshotIsPersisted ==
    /\ [][/\ SubmitValid =>
                 LET new == inflight'[Len(inflight')]
                 IN  /\ new.cropData = cropData
                     /\ new.seasonSource = seasonSource
                     /\ validateCropData(new.cropData).isValid
          /\ Len(inflight') = Len(inflight) =>
                 \A i \in 1..Len(inflight) :
                     /\ inflight'[i].cropData = inflight[i].cropData
                     /\ inflight'[i].seasonSource = inflight[i].seasonSource
          /\ \A i \in weatherRequests, w \in WeatherResponses :
                 WeatherOk(i, w) =>
                     stressLevel' = <<evaluateStress(inflight[i].cropData, w)>>]_vars
    /\ [](\A i \in persistenceWrites :
              LET sent == inflight[i].payload[1]
                  snap == inflight[i].cropData
              IN  /\ Len(inflight[i].payload) = 1
                  /\ sent.crop_type = snap.crop_type
                  /\ sent.soil_type = snap.soil_type
                  /\ sent.sowing_date = snap.sowing_date
                  /\ sent.season = snap.season
                  /\ sent.location = snap.location
                  /\ sent.userId = userId
                  /\ sent.season_source = inflight[i].seasonSource)

\* the farmer picked another season while the weather request was out: the
\* write carries the season and the "auto" of the submit, not the form's
C17_Witness ==
    \E i \in persistenceWrites :
        /\ inflight[i].payload[1].season_source = "auto"
        /\ seasonSource = "farmer"
        /\ inflight[i].payload[1].season # cropData.season
        /\ stressLevel = <<evaluateStress(inflight[i].cropData, weatherData[1])>>

\* C18: the success banner and the error list are never shown together:
\* success = true and errors non-empty do not hold at the same time.
C18_NeverBannerAndErrors == ~(success /\ errors # <<>>)

\* C19: a latitude or longitude that is present and numeric is the one the
\* weather gateway is queried with, 0 included; the default is used only for
\* a coordinate that is empty or not numeric.
C19_NumericCoordinatesUsed ==
    \A i \in 1..Len(inflight) :
        LET lat == parseFloat(inflight[i].cropData.location.lat)
            lng == parseFloat(inflight[i].cropData.location.lng)
        IN  /\ inflight[i].lat = IF lat.nan THEN DefaultLat ELSE lat.e4
            /\ inflight[i].lng = IF lng.nan THEN DefaultLng ELSE lng.e4

====
